---- MODULE Spec2Model ----
(***************************************************************************)
(* Model of the affiliate product-cache pipeline of fitvantage:            *)
(*   apps/core/tasks.py        refresh_affiliate_products,                 *)
(*                             _refresh_category_cache,                    *)
(*                             cleanup_expired_categories                  *)
(*   apps/core/utils.py        AmazonAPIClient, ProductRanker              *)
(*   apps/affiliate/models.py  AffiliateProductCache, AffiliateCategory    *)
(*   apps/affiliate/affiliate_services.py                                  *)
(*                             ProductService, CacheService, FilterService *)
(*                                                                         *)
(* Ratings are floats with one decimal in the source; the model stores     *)
(* them multiplied by 10 (4.0 is 40).  Time is counted in hours.           *)
(***************************************************************************)
EXTENDS Integers, Sequences, FiniteSets, TLC

----------------------------------------------------------------------------
(* Bounds of the model *)

NumCats == 2
MaxRuns == 2
MaxTime == 25
MaxLimit == 3
ExtraLong == 2
MaxPrice == 3
MaxLen == 3
NumLeads == 2
MaxClock == 3

(* Program constants *)

CacheCap == 20
TopBatch == 20
RefreshInterval == 24
DefaultMinRating == 40
DefaultMinReviewCount == 200
OrderDefault == 999
DefaultFallbackLimit == 4
WeightRating == 4
WeightReviews == 3
WeightBsr == 3
TopSchedule == 24
OtherSchedule == 168
MaxRetries == 3
RetryCountdown == 300
CriteriaMinRating == 40
CriteriaMinReviewCount == 200
BatchSize == 10
LeadExpiry == 720
CodeValidity == 600

(* Encodings of Python values *)

Null == -1
Missing == -2
Inf == 1000000
TickStep == RefreshInterval + 1

Cats == 1..NumCats

----------------------------------------------------------------------------
(* Sequence helpers *)

Take(s, n) == SubSeq(s, 1, IF n < Len(s) THEN n ELSE Len(s))

Range(s) == {s[i] : i \in 1..Len(s)}

RECURSIVE SelectSeqBy(_, _)
SelectSeqBy(s, keep) ==
    IF s = <<>> THEN <<>>
    ELSE IF Head(s) \in keep
         THEN <<Head(s)>> \o SelectSeqBy(Tail(s), keep)
         ELSE SelectSeqBy(Tail(s), keep)

(* All orders in which the elements of a finite set can be enumerated *)
RECURSIVE Orders(_)
Orders(S) ==
    IF S = {} THEN {<<>>}
    ELSE UNION {{<<x>> \o t : t \in Orders(S \ {x})} : x \in S}

----------------------------------------------------------------------------
(* Category rows (AffiliateCategory): fixed test data.                     *)
(* Category 2 is a child of category 1; category 1 is featured; the        *)
(* categories from 4 on are INACTIVE.                                      *)

CategoryParent(c) == IF c = 2 THEN 1 ELSE 0

CategoryFeatured(c) == c = 1

CategoryStatus(c) == IF c >= 4 THEN "INACTIVE" ELSE "ACTIVE"

----------------------------------------------------------------------------
(* Candidate payloads returned by the product source (dicts in the source) *)

Cand(a, r, n, b, s, p) ==
    [asin |-> a, rating |-> r, review_count |-> n, bsr_rank |-> b,
     in_stock |-> s, price_gbp |-> p]

cA == Cand(1, 45, 500, 10, TRUE, 20)
cB == Cand(2, 45, 300, 5, TRUE, 20)
cC == Cand(3, 39, 10000, 1, TRUE, 20)
cD == Cand(4, 50, 900, 2, FALSE, 20)
cE == Cand(0, 48, 800, 3, TRUE, 20)
cM == Cand(6, Missing, 250, Missing, TRUE, Null)
cN == Cand(5, Null, 400, 7, TRUE, 20)

(* More payloads than the cache keeps, handed over worst-rated first *)
LongResponse ==
    [i \in 1..(CacheCap + ExtraLong) |->
        Cand(100 + i, 25 + i, 200 + i, i, TRUE, 20)]

(* What one call of the product source can do: answer with a list of       *)
(* payloads, or fail inside the client.                                    *)
SourceOutcomes ==
    {[ok |-> FALSE, items |-> <<>>],
     [ok |-> TRUE, items |-> <<>>],
     [ok |-> TRUE, items |-> <<cD, cC>>],
     [ok |-> TRUE, items |-> <<cC, cE, cB, cM, cA, cD>>],
     [ok |-> TRUE, items |-> <<cA, cN>>],
     [ok |-> TRUE, items |-> LongResponse]}

----------------------------------------------------------------------------
(* AmazonAPIClient.get_category_products: whatever goes wrong inside the   *)
(* client is caught and an empty list is returned; the filters argument is *)
(* only a hint passed to the source and is not applied by the client.      *)

get_category_products(outcome, filters) ==
    IF outcome.ok THEN outcome.items ELSE <<>>

(* dict.get(key, default): the default is used only when the key is absent *)
DictGet(v, default) == IF v = Missing THEN default ELSE v

(* Variant: a payload without best-seller rank gets rank 0 *)
RankKey_absentFirst(p) ==
    <<0 - (DictGet(p.rating, 0) * WeightRating),
      0 - (DictGet(p.review_count, 0) * WeightReviews),
      DictGet(p.bsr_rank, 0) * WeightBsr>>

(* ProductRanker.rank_products: the sort key of one payload *)
RankKey(p) ==
    <<0 - (DictGet(p.rating, 0) * WeightRating),
      0 - (DictGet(p.review_count, 0) * WeightReviews),
      DictGet(p.bsr_rank, Inf) * WeightBsr>>

(* Python tuple comparison a < b *)
TupleLess(a, b) ==
    \/ a[1] < b[1]
    \/ a[1] = b[1] /\ a[2] < b[2]
    \/ a[1] = b[1] /\ a[2] = b[2] /\ a[3] < b[3]

(* Multiplying None by a weight raises TypeError *)
RankRaises(products) ==
    \E i \in 1..Len(products) :
        \/ products[i].rating = Null
        \/ products[i].review_count = Null
        \/ products[i].bsr_rank = Null

(* sorted(s, key=...) is stable: an element goes after every element whose *)
(* key is not greater.  keys[i] is the (3-tuple) sort key of s[i]; the     *)
(* positions 1..Len(s) are sorted and the elements read off in that order. *)
RECURSIVE InsertByKey(_, _, _)
InsertByKey(i, order, keys) ==
    IF order = <<>> THEN <<i>>
    ELSE IF TupleLess(keys[i], keys[Head(order)])
         THEN <<i>> \o order
         ELSE <<Head(order)>> \o InsertByKey(i, Tail(order), keys)

RECURSIVE SortFrom(_, _, _)
SortFrom(i, order, keys) ==
    IF i > Len(keys) THEN order
    ELSE SortFrom(i + 1, InsertByKey(i, order, keys), keys)

RECURSIVE InOrder(_, _)
InOrder(s, order) ==
    IF order = <<>> THEN <<>>
    ELSE <<s[Head(order)]>> \o InOrder(s, Tail(order))

Sorted(s, keys) == InOrder(s, SortFrom(1, <<>>, keys))

rank_products(products) ==
    Sorted(products, [i \in 1..Len(products) |-> RankKey(products[i])])

(* asins = [p.get("asin") for p in ranked if p.get("asin")] *)
RECURSIVE ExtractAsins(_)
ExtractAsins(ranked) ==
    IF ranked = <<>> THEN <<>>
    ELSE IF Head(ranked).asin \in {0, Null, Missing}
         THEN ExtractAsins(Tail(ranked))
         ELSE <<Head(ranked).asin>> \o ExtractAsins(Tail(ranked))

----------------------------------------------------------------------------
(* Filter rules (AffiliateProductFilter rows) *)

Rule(r, n, s, lo, hi) ==
    [min_rating |-> r, min_review_count |-> n, in_stock_only |-> s,
     min_price |-> lo, max_price |-> hi]

NoRule == Rule(Null, Null, FALSE, Null, Null)

DefaultRule == Rule(DefaultMinRating, DefaultMinReviewCount, TRUE, Null, Null)

(* FilterService.get_filter_rules *)
get_filter_rules(ruleRow) == IF ruleRow = NoRule THEN DefaultRule ELSE ruleRow

(* Python truthiness of an optional Decimal: None and 0 are false *)
Truthy(v) == v # Null /\ v # 0

(* Variant: a product without rating passes the rating check *)
apply_filter_rules_unrated(product, filter_rules) ==
    IF product.rating # Null /\ product.rating < filter_rules.min_rating
    THEN FALSE
    ELSE IF product.review_count < filter_rules.min_review_count
    THEN FALSE
    ELSE IF filter_rules.in_stock_only /\ ~product.in_stock
    THEN FALSE
    ELSE IF /\ Truthy(product.price_gbp)
            /\ \/ Truthy(filter_rules.min_price)
                  /\ product.price_gbp < filter_rules.min_price
               \/ Truthy(filter_rules.max_price)
                  /\ product.price_gbp > filter_rules.max_price
    THEN FALSE
    ELSE TRUE

(* FilterService.apply_filter_rules *)
apply_filter_rules(product, filter_rules) ==
    IF product.rating = Null \/ product.rating < filter_rules.min_rating
    THEN FALSE
    ELSE IF product.review_count < filter_rules.min_review_count
    THEN FALSE
    ELSE IF filter_rules.in_stock_only /\ ~product.in_stock
    THEN FALSE
    ELSE IF /\ Truthy(product.price_gbp)
            /\ \/ Truthy(filter_rules.min_price)
                  /\ product.price_gbp < filter_rules.min_price
               \/ Truthy(filter_rules.max_price)
                  /\ product.price_gbp > filter_rules.max_price
    THEN FALSE
    ELSE TRUE

(* The dict form of a rule, as meets_filter_criteria takes it *)
RuleDict(r) ==
    [min_rating |-> r.min_rating, min_review_count |-> r.min_review_count,
     in_stock_only |-> r.in_stock_only]

(* AffiliateProduct.meets_filter_criteria *)
meets_filter_criteria(product, filter_rules) ==
    IF \/ product.rating = Null
       \/ product.rating < DictGet(filter_rules.min_rating, CriteriaMinRating)
    THEN FALSE
    ELSE IF product.review_count
               < DictGet(filter_rules.min_review_count, CriteriaMinReviewCount)
    THEN FALSE
    ELSE IF ~product.in_stock /\ filter_rules.in_stock_only
    THEN FALSE
    ELSE TRUE

RuleChoices == {NoRule, DefaultRule}

----------------------------------------------------------------------------
(* State *)

VARIABLES
    rules,      \* AffiliateProductFilter row of each category, or NoRule
    cache,      \* AffiliateProductCache row of each category
    now,        \* timezone.now()
    run,        \* the running refresh_affiliate_products task
    runs,       \* number of refresh tasks started
    last,       \* what the latest _refresh_category_cache call did
    cleaned,    \* what the latest cleanup_expired_categories returned
    lastRead,   \* the latest call of a read operation and what it returned
    failures,   \* per category: failed refreshes in a row, and how many the
                \* latest successful refresh followed
    workers,    \* _refresh_category_cache calls running side by side
    task,       \* the Celery request of refresh_affiliate_products
    calc,       \* the latest call of a pure function and what it returned
    table,      \* the AffiliateProductCache table, one record per row
    lastOp,     \* the latest operation on the table
    janitor,    \* the running cleanup_expired_categories task
    leads,      \* Lead row of each lead
    calls,      \* leads that have a TwilioCall row
    leadOp,     \* the latest operation on the leads and what it returned
    phone       \* phone verification: provider flag, cached code, last call

vars == <<rules, cache, now, run, runs, last, cleaned, lastRead,
          failures, workers, task, calc,
          table, lastOp, janitor, leads, calls, leadOp, phone>>

(* What the pipeline and the read paths never touch *)
others == <<failures, workers, task, calc>>

(* The cache table seen row by row, the leads and the phone verification *)
extras == <<table, lastOp, janitor, leads, calls, leadOp, phone>>

(* AffiliateProductCache row; exists = FALSE stands for DoesNotExist and  *)
(* the other fields then hold the model defaults.                          *)
NoRow ==
    [exists |-> FALSE, cached_asins |-> <<>>, product_count |-> 0,
     is_fresh |-> FALSE, next_refresh |-> Null,
     error_count |-> 0, last_error |-> ""]

IdleRun ==
    [pc |-> "idle", tier |-> "all", category_id |-> 0, cats |-> <<>>, i |-> 1,
     refresh_count |-> 0, error_count |-> 0,
     written |-> {}, raised |-> {}, skipped |-> {}]

NoCall ==
    [cat |-> 0, result |-> "none", queried |-> FALSE, ok |-> FALSE,
     items |-> <<>>]

NoRead ==
    [op |-> "none", cat |-> 0, limit |-> Null, result |-> <<>>, flag |-> FALSE,
     at |-> 0]

NoFailures == [c \in Cats |-> [streak |-> 0, cleared |-> 0]]

NoWorkers == [c \in Cats |-> [pc |-> "off"]]

NoTask ==
    [state |-> "none", retries |-> 0, executions |-> 0, countdown |-> 0,
     waited |-> 0]

NoCalc == [op |-> "none"]

OthersIdle ==
    /\ failures = NoFailures
    /\ workers = NoWorkers
    /\ task = NoTask
    /\ calc = NoCalc

NoOp == [name |-> "none", after |-> "none", again |-> FALSE, cat |-> 0,
         asins |-> <<>>, at |-> 0, list |-> <<>>, stale |-> FALSE]

NoJanitor == [pc |-> "off", loaded |-> <<>>, marked_stale |-> 0]

NoLeadOp == [op |-> "none", lead |-> 0, value |-> 0]

NoPhone == [pc |-> "off"]

ExtrasIdle ==
    /\ table = <<>>
    /\ lastOp = NoOp
    /\ janitor = NoJanitor
    /\ leads = <<>>
    /\ calls = {}
    /\ leadOp = NoLeadOp
    /\ phone = NoPhone

Init ==
    /\ rules \in [Cats -> RuleChoices]
    /\ cache = [c \in Cats |-> NoRow]
    /\ now = 0
    /\ run = IdleRun
    /\ runs = 0
    /\ last = NoCall
    /\ cleaned = 0
    /\ lastRead = NoRead
    /\ OthersIdle
    /\ ExtrasIdle

----------------------------------------------------------------------------
(* refresh_affiliate_products: choice of the categories to refresh *)

AllCatsSeq == [i \in 1..NumCats |-> i]

SelectCategories(category_id, tier) ==
    IF category_id # 0
    THEN SelectSeqBy(AllCatsSeq, {category_id})
    ELSE IF tier = "top"
    THEN Take(SelectSeqBy(AllCatsSeq,
                 {c \in Cats : CategoryStatus(c) = "ACTIVE" /\ CategoryFeatured(c)}),
              TopBatch)
    ELSE SelectSeqBy(AllCatsSeq, {c \in Cats : CategoryStatus(c) = "ACTIVE"})

StartRefresh(category_id, tier) ==
    /\ run.pc \in {"idle", "done"}
    /\ runs < MaxRuns
    /\ runs' = runs + 1
    /\ run' = [IdleRun EXCEPT !.pc = "loop", !.tier = tier,
                              !.category_id = category_id,
                              !.cats = SelectCategories(category_id, tier)]
    /\ UNCHANGED <<rules, cache, now, last, cleaned, lastRead,
                   others, extras>>

(* Variant: the new identifiers are appended to the stored list *)
UpdateOrCreate_merge(row, asins, t) ==
    [row EXCEPT !.exists = TRUE,
                !.cached_asins = Take(row.cached_asins \o asins, CacheCap),
                !.product_count = Len(asins),
                !.is_fresh = TRUE,
                !.next_refresh = t + RefreshInterval]

(* Variant: the whole list is stored *)
UpdateOrCreate_uncut(row, asins, t) ==
    [row EXCEPT !.exists = TRUE,
                !.cached_asins = asins,
                !.product_count = Len(asins),
                !.is_fresh = TRUE,
                !.next_refresh = t + RefreshInterval]

(* update_or_create(category=..., defaults={...}): the four defaults are   *)
(* written, a new row gets the model defaults for the rest, an existing    *)
(* row keeps the rest.                                                     *)
UpdateOrCreate(row, asins, t) ==
    [row EXCEPT !.exists = TRUE,
                !.cached_asins = Take(asins, CacheCap),
                !.product_count = Len(asins),
                !.is_fresh = TRUE,
                !.next_refresh = t + RefreshInterval]

(* _refresh_category_cache(category), with the source's answer as input:   *)
(* "skipped" (no filter row: warning and return), "raised" (exception      *)
(* leaves the function) or "written".                                      *)
RefreshResult(ruleRow, outcome) ==
    IF ruleRow = NoRule THEN "skipped"
    ELSE IF RankRaises(get_category_products(outcome, ruleRow)) THEN "raised"
    ELSE "written"

(* Variant: an exception in the refresh is recorded on the row *)
RefreshedRow_recordError(row, ruleRow, outcome, t) ==
    IF RefreshResult(ruleRow, outcome) = "written"
    THEN UpdateOrCreate(row,
             ExtractAsins(rank_products(get_category_products(outcome, ruleRow))),
             t)
    ELSE IF RefreshResult(ruleRow, outcome) = "raised"
    THEN [row EXCEPT !.exists = TRUE, !.error_count = @ + 1,
                     !.last_error = "error"]
    ELSE row

RefreshedRow(row, ruleRow, outcome, t) ==
    IF RefreshResult(ruleRow, outcome) = "written"
    THEN UpdateOrCreate(row,
             ExtractAsins(rank_products(get_category_products(outcome, ruleRow))),
             t)
    ELSE row

(* One iteration of the loop of refresh_affiliate_products *)
RefreshCategoryStep(outcome) ==
    /\ run.pc = "loop"
    /\ run.i <= Len(run.cats)
    /\ LET c == run.cats[run.i]
           res == RefreshResult(rules[c], outcome)
       IN /\ cache' = [cache EXCEPT ![c] = RefreshedRow(@, rules[c], outcome, now)]
          /\ last' = [cat |-> c, result |-> res,
                      queried |-> res # "skipped",
                      ok |-> IF res = "skipped" THEN FALSE ELSE outcome.ok,
                      items |-> IF res = "skipped" THEN <<>> ELSE outcome.items]
          /\ run' = [run EXCEPT
                        !.i = @ + 1,
                        !.refresh_count = IF res = "raised" THEN @ ELSE @ + 1,
                        !.error_count = IF res = "raised" THEN @ + 1 ELSE @,
                        !.written = IF res = "written" THEN @ \cup {c} ELSE @,
                        !.raised = IF res = "raised" THEN @ \cup {c} ELSE @,
                        !.skipped = IF res = "skipped" THEN @ \cup {c} ELSE @]
    /\ UNCHANGED <<rules, now, runs, cleaned, lastRead, extras>>

RefreshCategory(outcome) ==
    /\ RefreshCategoryStep(outcome)
    /\ UNCHANGED <<others, extras>>

(* After the loop: TaskLog row, log line and the returned summary *)
FinishRefresh ==
    /\ run.pc = "loop"
    /\ run.i > Len(run.cats)
    /\ run' = [run EXCEPT !.pc = "done"]
    /\ UNCHANGED <<rules, cache, now, runs, last, cleaned, lastRead,
                   others, extras>>

----------------------------------------------------------------------------
(* cleanup_expired_categories: every row with product_count = 0 is loaded, *)
(* marked not fresh and saved; the task returns the number of such rows.   *)

EmptyCaches == {c \in Cats : cache[c].exists /\ cache[c].product_count = 0}

CleanupExpiredCategories ==
    /\ cache' = [c \in Cats |->
                    IF c \in EmptyCaches
                    THEN [cache[c] EXCEPT !.is_fresh = FALSE]
                    ELSE cache[c]]
    /\ cleaned' = Cardinality(EmptyCaches)
    /\ UNCHANGED <<rules, now, run, runs, last, lastRead, others, extras>>

----------------------------------------------------------------------------
(* Passage of time *)

Tick ==
    /\ now + TickStep <= MaxTime
    /\ now' = now + TickStep
    /\ UNCHANGED <<rules, cache, run, runs, last, cleaned, lastRead,
                   others, extras>>

----------------------------------------------------------------------------
(* Product rows (AffiliateProduct): fixed test data, keyed by asin.        *)
(* The rows are a snapshot of their own; asins the source returns need not *)
(* have a row.                                                             *)

Product(st, s, r, n) ==
    [status |-> st, in_stock |-> s, rating |-> r, review_count |-> n]

DbAsins == {1, 2, 3, 4, 5, 7}

ProductDb ==
    [a \in DbAsins |->
        CASE a = 1 -> Product("ACTIVE", TRUE, 45, 300)
          [] a = 2 -> Product("ACTIVE", TRUE, 45, 500)
          [] a = 3 -> Product("INACTIVE", TRUE, 49, 10000)
          [] a = 4 -> Product("ACTIVE", FALSE, 50, 900)
          [] a = 5 -> Product("ACTIVE", TRUE, 47, 250)
          [] OTHER -> Product("ACTIVE", FALSE, Null, 800)]

(* AffiliateProduct.objects.filter(asin__in=asins, status="ACTIVE") *)
ActiveIn(asins) ==
    {a \in DbAsins : a \in Range(asins) /\ ProductDb[a].status = "ACTIVE"}

(* {asin: i for i, asin in enumerate(asins)}: a repeated asin keeps its    *)
(* last index                                                              *)
PreservedOrder(asins) ==
    [a \in Range(asins) |->
        (CHOOSE i \in 1..Len(asins) :
            asins[i] = a /\ \A j \in (i + 1)..Len(asins) : asins[j] # a) - 1]

(* Variant: the rows are returned in the order the database hands them over *)
get_products_unsorted(row, fetched) ==
    IF row.cached_asins = <<>> THEN <<>> ELSE fetched

(* AffiliateProductCache.get_products; fetched is the order in which the   *)
(* database hands over the matching rows                                   *)
get_products(row, fetched) ==
    IF row.cached_asins = <<>> THEN <<>>
    ELSE LET preserved_order == PreservedOrder(row.cached_asins)
         IN Sorted(fetched,
                [i \in 1..Len(fetched) |->
                    <<IF fetched[i] \in DOMAIN preserved_order
                      THEN preserved_order[fetched[i]] ELSE OrderDefault,
                      0, 0>>])

(* Variant: a row is stale from the moment of its next refresh on *)
is_cache_stale_onTime(row, t) ==
    IF ~row.is_fresh THEN TRUE
    ELSE IF row.next_refresh # Null /\ t >= row.next_refresh THEN TRUE
    ELSE FALSE

(* AffiliateProductCache.is_cache_stale *)
is_cache_stale(row, t) ==
    IF ~row.is_fresh THEN TRUE
    ELSE IF row.next_refresh # Null /\ t > row.next_refresh THEN TRUE
    ELSE FALSE

(* CacheService.is_cache_fresh *)
is_cache_fresh(row, t) ==
    IF ~row.is_fresh THEN FALSE
    ELSE IF row.cached_asins = <<>> \/ Len(row.cached_asins) = 0 THEN FALSE
    ELSE is_cache_stale(row, t) = FALSE

(* AffiliateProduct rows with status ACTIVE and in_stock *)
TopPool == {a \in DbAsins : ProductDb[a].status = "ACTIVE" /\ ProductDb[a].in_stock}

(* ProductService.get_top_products: ORDER BY rating DESC, review_count     *)
(* DESC (SQLite: NULL sorts below every value); stored is the order of the *)
(* rows before sorting, which decides ties                                 *)
get_top_products(limit, stored) ==
    Take(Sorted(stored,
            [i \in 1..Len(stored) |->
                <<IF ProductDb[stored[i]].rating = Null
                  THEN 1 ELSE 0 - ProductDb[stored[i]].rating,
                  0 - ProductDb[stored[i]].review_count, 0>>]),
         limit)

(* Variant: the parent's cache is used whenever the parent has a row *)
get_fallback_products_anyrow(c, limit, fetched, stored) ==
    IF /\ CategoryParent(c) # 0
       /\ cache[CategoryParent(c)].exists
    THEN Take(get_products(cache[CategoryParent(c)], fetched), limit)
    ELSE get_top_products(limit, stored)

(* CacheService.get_fallback_products *)
get_fallback_products(c, limit, fetched, stored) ==
    IF /\ CategoryParent(c) # 0
       /\ cache[CategoryParent(c)].exists
       /\ cache[CategoryParent(c)].cached_asins # <<>>
    THEN Take(get_products(cache[CategoryParent(c)], fetched), limit)
    ELSE get_top_products(limit, stored)

(* ProductService.get_category_products; limit None is Null *)
get_category_products_of(c, limit, fetched) ==
    IF ~cache[c].exists THEN <<>>
    ELSE IF limit # Null /\ limit # 0
         THEN Take(get_products(cache[c], fetched), limit)
         ELSE get_products(cache[c], fetched)

(* AffiliateCategory.get_product_count *)
get_product_count(c) ==
    IF ~cache[c].exists THEN 0
    ELSE IF cache[c].cached_asins # <<>> THEN Len(cache[c].cached_asins)
    ELSE 0

(* CategorySerializer.get_product_count: the row's product_count field *)
serializer_product_count(c) ==
    IF ~cache[c].exists THEN 0 ELSE cache[c].product_count

(* CategoryDetailView.get_context_data: context["product_count"] *)
detail_product_count(c) ==
    IF ~cache[c].exists THEN 0 ELSE cache[c].product_count

----------------------------------------------------------------------------
(* Read operations, called by page rendering at any time *)

ReadProducts(c) ==
    /\ cache[c].exists
    /\ \E fetched \in Orders(ActiveIn(cache[c].cached_asins)) :
          lastRead' = [op |-> "get_products", cat |-> c, limit |-> Null,
                       result |-> get_products(cache[c], fetched), flag |-> FALSE, at |-> now]
    /\ UNCHANGED <<rules, cache, now, run, runs, last, cleaned,
                   others, extras>>

(* Variant: a read that finds no cache row starts a refresh of the category *)
ReadCategoryProducts_refreshing(c, limit) ==
    /\ \E fetched \in Orders(ActiveIn(cache[c].cached_asins)) :
          lastRead' = [op |-> "get_category_products", cat |-> c, limit |-> limit,
                       result |-> get_category_products_of(c, limit, fetched),
                       flag |-> FALSE, at |-> now]
    /\ run' = IF cache[c].exists THEN run
              ELSE [IdleRun EXCEPT !.pc = "loop", !.category_id = c,
                                   !.cats = SelectCategories(c, "all")]
    /\ UNCHANGED <<rules, cache, now, runs, last, cleaned, others, extras>>

ReadCategoryProducts(c, limit) ==
    /\ \E fetched \in Orders(ActiveIn(cache[c].cached_asins)) :
          lastRead' = [op |-> "get_category_products", cat |-> c, limit |-> limit,
                       result |-> get_category_products_of(c, limit, fetched),
                       flag |-> FALSE, at |-> now]
    /\ UNCHANGED <<rules, cache, now, run, runs, last, cleaned,
                   others, extras>>

(* Only the query that the call makes has an order to choose *)
ReadFallback(c, limit) ==
    /\ \E stored \in (IF /\ CategoryParent(c) # 0
                          /\ cache[CategoryParent(c)].exists
                          /\ cache[CategoryParent(c)].cached_asins # <<>>
                       THEN {<<>>} ELSE Orders(TopPool)) :
       \E fetched \in Orders(IF CategoryParent(c) # 0
                             THEN ActiveIn(cache[CategoryParent(c)].cached_asins)
                             ELSE {}) :
          lastRead' = [op |-> "get_fallback_products", cat |-> c, limit |-> limit,
                       result |-> get_fallback_products(c, limit, fetched, stored),
                       flag |-> FALSE, at |-> now]
    /\ UNCHANGED <<rules, cache, now, run, runs, last, cleaned,
                   others, extras>>

(* The count is recorded as a one-element result *)
ReadProductCount(c) ==
    /\ lastRead' = [op |-> "get_product_count", cat |-> c, limit |-> Null,
                    result |-> <<get_product_count(c)>>, flag |-> FALSE,
                    at |-> now]
    /\ UNCHANGED <<rules, cache, now, run, runs, last, cleaned,
                   others, extras>>

ReadStale(c) ==
    /\ cache[c].exists
    /\ lastRead' = [op |-> "is_cache_stale", cat |-> c, limit |-> Null,
                    result |-> <<>>, flag |-> is_cache_stale(cache[c], now),
                    at |-> now]
    /\ UNCHANGED <<rules, cache, now, run, runs, last, cleaned,
                   others, extras>>

ReadFresh(c) ==
    /\ cache[c].exists
    /\ lastRead' = [op |-> "is_cache_fresh", cat |-> c, limit |-> Null,
                    result |-> <<>>, flag |-> is_cache_fresh(cache[c], now),
                    at |-> now]
    /\ UNCHANGED <<rules, cache, now, run, runs, last, cleaned,
                   others, extras>>

----------------------------------------------------------------------------

RunInputs ==
    {<<c, "all">> : c \in Cats} \cup {<<0, t>> : t \in {"top", "other"}}

Next ==
    \/ \E in \in RunInputs : StartRefresh(in[1], in[2])
    \/ \E outcome \in SourceOutcomes : RefreshCategory(outcome)
    \/ FinishRefresh
    \/ CleanupExpiredCategories
    \/ Tick

Spec == Init /\ [][Next]_vars

----------------------------------------------------------------------------
(* The read side on its own: every cache row the refresh can have written, *)
(* read at any time.                                                       *)

ReadLists ==
    {<<>>, <<3>>, <<2, 1>>, <<3, 2, 6, 1>>, <<2, 1, 2>>, <<5, 4, 1>>}

ReadRows ==
    {NoRow} \cup {UpdateOrCreate(NoRow, asins, 0) : asins \in ReadLists}
            \cup {[UpdateOrCreate(NoRow, <<>>, 0) EXCEPT !.is_fresh = FALSE]}

InitRead ==
    /\ rules = [c \in Cats |-> DefaultRule]
    /\ cache \in [Cats -> ReadRows]
    /\ now = 0
    /\ run = IdleRun
    /\ runs = 0
    /\ last = NoCall
    /\ cleaned = 0
    /\ lastRead = NoRead
    /\ OthersIdle
    /\ ExtrasIdle

Limits == 0..MaxLimit

NextRead ==
    \/ \E c \in Cats : ReadProducts(c)
    \/ \E c \in Cats : \E limit \in Limits \cup {Null} : ReadCategoryProducts(c, limit)
    \/ \E c \in Cats : \E limit \in Limits : ReadFallback(c, limit)
    \/ \E c \in Cats : ReadProductCount(c)
    \/ \E c \in Cats : ReadStale(c)
    \/ \E c \in Cats : ReadFresh(c)
    \/ Tick

SpecRead == InitRead /\ [][NextRead]_vars

----------------------------------------------------------------------------
(* The refresh runs with a record of each category's failed refreshes: a   *)
(* refresh fails when the source call fails or when an exception leaves    *)
(* _refresh_category_cache.                                                *)

RefreshFailed(ruleRow, outcome) ==
    RefreshResult(ruleRow, outcome) = "raised" \/ ~outcome.ok

RefreshCategoryTracked(outcome) ==
    /\ RefreshCategoryStep(outcome)
    /\ LET c == run.cats[run.i]
       IN failures' =
             [failures EXCEPT ![c] =
                 IF RefreshFailed(rules[c], outcome)
                 THEN [streak |-> @.streak + 1, cleared |-> 0]
                 ELSE [streak |-> 0, cleared |-> @.streak]]
    /\ UNCHANGED <<workers, task, calc, extras>>

InitErr ==
    /\ rules = [c \in Cats |-> DefaultRule]
    /\ cache = [c \in Cats |-> NoRow]
    /\ now = 0
    /\ run = IdleRun
    /\ runs = 0
    /\ last = NoCall
    /\ cleaned = 0
    /\ lastRead = NoRead
    /\ OthersIdle
    /\ ExtrasIdle

NextErr ==
    \/ \E in \in RunInputs : StartRefresh(in[1], in[2])
    \/ \E outcome \in SourceOutcomes : RefreshCategoryTracked(outcome)
    \/ FinishRefresh
    \/ Tick

SpecErr == InitErr /\ [][NextErr]_vars

----------------------------------------------------------------------------
(* Refreshes of different categories running side by side (two schedules   *)
(* or two explicit runs at once): one _refresh_category_cache call per     *)
(* category, each in two steps, the call of the source and the write.      *)
(* Category 1 already has a row; the other categories have none.           *)

ParRow(c) == IF c = 1 THEN UpdateOrCreate(NoRow, <<2, 1>>, 0) ELSE NoRow

NoOutcome == [ok |-> FALSE, items |-> <<>>]

IdleWorker == [pc |-> "idle", outcome |-> NoOutcome, at |-> 0]

(* Filter row lookup and call of the source; without a filter row the call *)
(* returns at once                                                         *)
WorkerCall(c, outcome) ==
    /\ workers[c].pc = "idle"
    /\ workers' = [workers EXCEPT ![c] =
                      IF rules[c] = NoRule
                      THEN [pc |-> "done", outcome |-> NoOutcome, at |-> now]
                      ELSE [pc |-> "called", outcome |-> outcome, at |-> now]]
    /\ UNCHANGED <<rules, cache, now, run, runs, last, cleaned, lastRead,
                   failures, task, calc, extras>>

(* Variant: an empty result is replaced by the parent's cached identifiers *)
WorkerWrite_borrowing(c) ==
    /\ workers[c].pc = "called"
    /\ LET row == RefreshedRow(cache[c], rules[c], workers[c].outcome, now)
       IN cache' = [cache EXCEPT ![c] =
                       IF /\ row.cached_asins = <<>>
                          /\ CategoryParent(c) # 0
                       THEN [row EXCEPT !.cached_asins =
                                           cache[CategoryParent(c)].cached_asins]
                       ELSE row]
    /\ workers' = [workers EXCEPT ![c].pc = "done", ![c].at = now]
    /\ UNCHANGED <<rules, now, run, runs, last, cleaned, lastRead,
                   failures, task, calc, extras>>

(* Ranking, identifier extraction and update_or_create *)
WorkerWrite(c) ==
    /\ workers[c].pc = "called"
    /\ cache' = [cache EXCEPT ![c] =
                    RefreshedRow(@, rules[c], workers[c].outcome, now)]
    /\ workers' = [workers EXCEPT ![c].pc = "done", ![c].at = now]
    /\ UNCHANGED <<rules, now, run, runs, last, cleaned, lastRead,
                   failures, task, calc, extras>>

InitPar ==
    /\ rules \in [Cats -> RuleChoices]
    /\ cache = [c \in Cats |-> ParRow(c)]
    /\ now = 0
    /\ run = IdleRun
    /\ runs = 0
    /\ last = NoCall
    /\ cleaned = 0
    /\ lastRead = NoRead
    /\ failures = NoFailures
    /\ workers = [c \in Cats |-> IdleWorker]
    /\ task = NoTask
    /\ calc = NoCalc
    /\ ExtrasIdle

NextPar ==
    \/ \E c \in Cats : \E outcome \in SourceOutcomes : WorkerCall(c, outcome)
    \/ \E c \in Cats : WorkerWrite(c)
    \/ Tick

SpecPar == InitPar /\ [][NextPar]_vars

----------------------------------------------------------------------------
(* refresh_affiliate_products as a Celery task (bind=True, max_retries=3). *)
(* An exception outside the per-category try (the category query, or the   *)
(* creation of the TaskLog row) reaches the outer except, which calls      *)
(* self.retry(exc=e, countdown=300).  task.retries is request.retries,     *)
(* task.waited counts the seconds since the retry was scheduled.           *)

RetryOutcomes ==
    {o \in SourceOutcomes : o.items \in {<<>>, <<cD, cC>>}}

(* Variant: the task gives up one retry earlier *)
Retried_early(t) ==
    IF t.retries + 1 >= MaxRetries
    THEN [t EXCEPT !.state = "failed"]
    ELSE [t EXCEPT !.state = "waiting", !.retries = @ + 1,
                   !.countdown = RetryCountdown, !.waited = 0]

(* Task.retry: the exception is re-raised once request.retries + 1 exceeds *)
(* max_retries; otherwise the task is sent again with the countdown        *)
Retried(t) ==
    IF t.retries + 1 > MaxRetries
    THEN [t EXCEPT !.state = "failed"]
    ELSE [t EXCEPT !.state = "waiting", !.retries = @ + 1,
                   !.countdown = RetryCountdown, !.waited = 0]

TaskDispatch(category_id, tier) ==
    /\ task.state = "none"
    /\ task' = [NoTask EXCEPT !.state = "running", !.executions = 1]
    /\ run' = [IdleRun EXCEPT !.pc = "select", !.tier = tier,
                              !.category_id = category_id]
    /\ runs' = runs + 1
    /\ UNCHANGED <<rules, cache, now, last, cleaned, lastRead,
                   failures, workers, calc, extras>>

(* Evaluation of the category query at the head of the loop *)
TaskSelect(db_ok) ==
    /\ task.state = "running"
    /\ run.pc = "select"
    /\ IF db_ok
       THEN /\ run' = [run EXCEPT !.pc = "loop",
                          !.cats = SelectCategories(run.category_id, run.tier)]
            /\ task' = task
       ELSE /\ run' = [run EXCEPT !.pc = "aborted"]
            /\ task' = Retried(task)
    /\ UNCHANGED <<rules, cache, now, runs, last, cleaned, lastRead,
                   failures, workers, calc, extras>>

(* TaskLog.objects.create and the returned summary *)
TaskFinish(db_ok) ==
    /\ task.state = "running"
    /\ run.pc = "loop"
    /\ run.i > Len(run.cats)
    /\ IF db_ok
       THEN /\ run' = [run EXCEPT !.pc = "done"]
            /\ task' = [task EXCEPT !.state = "summary"]
       ELSE /\ run' = [run EXCEPT !.pc = "aborted"]
            /\ task' = Retried(task)
    /\ UNCHANGED <<rules, cache, now, runs, last, cleaned, lastRead,
                   failures, workers, calc, extras>>

(* The countdown of a scheduled retry runs down *)
TaskWait ==
    /\ task.state = "waiting"
    /\ task.waited < task.countdown
    /\ task' = [task EXCEPT !.waited = task.countdown]
    /\ UNCHANGED <<rules, cache, now, run, runs, last, cleaned, lastRead,
                   failures, workers, calc, extras>>

(* The worker executes the task again, with the same arguments *)
TaskRedeliver ==
    /\ task.state = "waiting"
    /\ task.waited >= task.countdown
    /\ task' = [task EXCEPT !.state = "running", !.executions = @ + 1]
    /\ run' = [IdleRun EXCEPT !.pc = "select", !.tier = run.tier,
                              !.category_id = run.category_id]
    /\ UNCHANGED <<rules, cache, now, runs, last, cleaned, lastRead,
                   failures, workers, calc, extras>>

InitRetry ==
    /\ rules = [c \in Cats |-> DefaultRule]
    /\ cache = [c \in Cats |-> NoRow]
    /\ now = 0
    /\ run = IdleRun
    /\ runs = 0
    /\ last = NoCall
    /\ cleaned = 0
    /\ lastRead = NoRead
    /\ OthersIdle
    /\ ExtrasIdle

NextRetry ==
    \/ \E in \in RunInputs : TaskDispatch(in[1], in[2])
    \/ \E db_ok \in BOOLEAN : TaskSelect(db_ok)
    \/ \E outcome \in RetryOutcomes : RefreshCategory(outcome)
    \/ \E db_ok \in BOOLEAN : TaskFinish(db_ok)
    \/ TaskWait
    \/ TaskRedeliver

SpecRetry == InitRetry /\ [][NextRetry]_vars

(* The worker keeps executing the tasks it is given *)
SpecRetryFair == SpecRetry /\ WF_vars(NextRetry)

----------------------------------------------------------------------------
(* The filter and the ranker on their own, applied to bounded inputs *)

Prices == {Null} \cup 0..MaxPrice

FilterProducts ==
    {Cand(1, r, n, 1, st, pr) :
        r \in {Null, 39, 40, 45}, n \in {199, 200, 10000},
        st \in BOOLEAN, pr \in Prices}

FilterRules ==
    {Rule(r, DefaultMinReviewCount, st, lo, hi) :
        r \in {DefaultMinRating, 45}, st \in BOOLEAN,
        lo \in Prices, hi \in Prices}

(* Both implementations of the filter, called on the chosen arguments *)
CheckProduct ==
    /\ calc.op = "filter_call"
    /\ calc' = [op |-> "filter", product |-> calc.product, rule |-> calc.rule,
                applied |-> apply_filter_rules(calc.product, calc.rule),
                met |-> meets_filter_criteria(calc.product, RuleDict(calc.rule))]
    /\ UNCHANGED <<rules, cache, now, run, runs, last, cleaned, lastRead,
                   failures, workers, task, extras>>

(* Payloads with equal and different keys; pT ties with cA on every key,   *)
(* pU has no best-seller rank                                              *)
pT == Cand(7, 45, 500, 10, TRUE, 20)
pU == Cand(8, 45, 500, Missing, TRUE, 20)
pV == Cand(9, 50, 10, 1000, TRUE, 20)

RankPayloads == {cA, cB, pT, pU, pV}

RankInputs == UNION {[1..n -> RankPayloads] : n \in 0..MaxLen}

(* rank_products, called on the chosen list *)
RankList ==
    /\ calc.op = "rank_call"
    /\ calc' = [op |-> "rank", input |-> calc.input,
                output |-> rank_products(calc.input)]
    /\ UNCHANGED <<rules, cache, now, run, runs, last, cleaned, lastRead,
                   failures, workers, task, extras>>

InitPure ==
    /\ rules = [c \in Cats |-> DefaultRule]
    /\ cache = [c \in Cats |-> NoRow]
    /\ now = 0
    /\ run = IdleRun
    /\ runs = 0
    /\ last = NoCall
    /\ cleaned = 0
    /\ lastRead = NoRead
    /\ failures = NoFailures
    /\ workers = NoWorkers
    /\ task = NoTask
    /\ calc \in {[op |-> "filter_call", product |-> product, rule |-> rule] :
                    product \in FilterProducts, rule \in FilterRules}
               \cup {[op |-> "rank_call", input |-> products] :
                        products \in RankInputs}
    /\ ExtrasIdle

NextPure ==
    \/ CheckProduct
    \/ RankList

SpecPure == InitPure /\ [][NextPure]_vars

----------------------------------------------------------------------------
(* The cache table row by row: update_or_create, the row's own read        *)
(* methods and cleanup_expired_categories in its steps (query, one save    *)
(* per loaded row, count), each of them free to run between the others.    *)

(* Identifier lists handed to the write: none, two, and one more than the  *)
(* cache keeps                                                             *)
StoreLists ==
    {<<>>, <<2, 1>>, [i \in 1..(CacheCap + 1) |-> 100 + i]}

(* The categories written and read here: a parent and its child *)
StoreCats == {c \in Cats : c = 1 \/ CategoryParent(c) = 1}

(* Primary keys of the rows of a category *)
RowsOf(tbl, c) == {i \in 1..Len(tbl) : tbl[i].category = c}

(* Variant: the row is always inserted *)
TableUpdateOrCreate_insert(tbl, c, asins, t) ==
    Append(tbl, [category |-> c, row |-> UpdateOrCreate(NoRow, asins, t)])

(* AffiliateProductCache.objects.update_or_create(category=category,       *)
(* defaults={...}): the row of the category is updated, or inserted when   *)
(* the category has none                                                   *)
TableUpdateOrCreate(tbl, c, asins, t) ==
    IF RowsOf(tbl, c) = {}
    THEN Append(tbl, [category |-> c, row |-> UpdateOrCreate(NoRow, asins, t)])
    ELSE [i \in 1..Len(tbl) |->
             IF tbl[i].category = c
             THEN [tbl[i] EXCEPT !.row = UpdateOrCreate(@, asins, t)]
             ELSE tbl[i]]

(* The write of _refresh_category_cache, asins being the extracted list *)
StoreWrite(c, asins) ==
    /\ table' = TableUpdateOrCreate(table, c, asins, now)
    /\ lastOp' = [name |-> "write", after |-> lastOp.name,
                  again |-> /\ lastOp.name = "write"
                            /\ lastOp.cat = c
                            /\ lastOp.asins = asins
                            /\ lastOp.at = now,
                  cat |-> c, asins |-> asins, at |-> now, list |-> <<>>,
                  stale |-> FALSE]
    /\ UNCHANGED <<rules, cache, now, run, runs, last, cleaned, lastRead,
                   others, janitor, leads, calls, leadOp, phone>>

(* category.affiliate_product_cache, its cached_asins and is_cache_stale() *)
StoreRead(c) ==
    /\ RowsOf(table, c) # {}
    /\ \E i \in RowsOf(table, c) :
          lastOp' = [name |-> "read", after |-> lastOp.name,
                     again |-> FALSE, cat |-> c,
                     asins |-> <<>>, at |-> now,
                     list |-> table[i].row.cached_asins,
                     stale |-> is_cache_stale(table[i].row, now)]
    /\ UNCHANGED <<rules, cache, now, run, runs, last, cleaned, lastRead,
                   others, table, janitor, leads, calls, leadOp, phone>>

(* AffiliateProductCache.objects.filter(product_count=0), evaluated when   *)
(* the loop starts: the matching rows are loaded as objects                *)
JanitorQuery ==
    /\ janitor.pc \in {"off", "done"}
    /\ janitor' = [pc |-> "saving",
                   loaded |-> SelectSeqBy([i \in 1..Len(table) |->
                                              [id |-> i, obj |-> table[i]]],
                                 {[id |-> i, obj |-> table[i]] :
                                     i \in {j \in 1..Len(table) :
                                               table[j].row.product_count = 0}}),
                   marked_stale |-> 0]
    /\ UNCHANGED <<rules, cache, now, run, runs, last, cleaned, lastRead,
                   others, table, lastOp, leads, calls, leadOp, phone>>

(* cache_obj.is_fresh = False; cache_obj.save(): every field of the loaded *)
(* object is written to the row with its primary key                       *)
JanitorSave ==
    /\ janitor.pc = "saving"
    /\ janitor.loaded # <<>>
    /\ LET item == Head(janitor.loaded)
       IN /\ table' = [table EXCEPT ![item.id] =
                          [item.obj EXCEPT !.row.is_fresh = FALSE]]
          /\ lastOp' = [name |-> "save", after |-> lastOp.name,
                        again |-> FALSE,
                        cat |-> item.obj.category, asins |-> <<>>,
                        at |-> now, list |-> <<>>, stale |-> FALSE]
    /\ janitor' = [janitor EXCEPT !.loaded = Tail(@)]
    /\ UNCHANGED <<rules, cache, now, run, runs, last, cleaned, lastRead,
                   others, leads, calls, leadOp, phone>>

(* empty_caches.count(): the query is run again for the returned count *)
JanitorFinish ==
    /\ janitor.pc = "saving"
    /\ janitor.loaded = <<>>
    /\ janitor' = [pc |-> "done", loaded |-> <<>>,
                   marked_stale |->
                      Cardinality({i \in 1..Len(table) :
                                      table[i].row.product_count = 0})]
    /\ UNCHANGED <<rules, cache, now, run, runs, last, cleaned, lastRead,
                   others, table, lastOp, leads, calls, leadOp, phone>>

(* Time passes: up to the next refresh of a row written at 0, then past it *)
StoreTick ==
    /\ now < TickStep
    /\ now' = IF now < RefreshInterval THEN RefreshInterval ELSE TickStep
    /\ UNCHANGED <<rules, cache, run, runs, last, cleaned, lastRead,
                   others, extras>>

InitStore ==
    /\ rules = [c \in Cats |-> DefaultRule]
    /\ cache = [c \in Cats |-> NoRow]
    /\ now = 0
    /\ run = IdleRun
    /\ runs = 0
    /\ last = NoCall
    /\ cleaned = 0
    /\ lastRead = NoRead
    /\ OthersIdle
    /\ ExtrasIdle

NextStore ==
    \/ \E c \in StoreCats : \E asins \in StoreLists : StoreWrite(c, asins)
    \/ \E c \in StoreCats : StoreRead(c)
    \/ JanitorQuery
    \/ JanitorSave
    \/ JanitorFinish
    \/ StoreTick

SpecStore == InitStore /\ [][NextStore]_vars

----------------------------------------------------------------------------
(* Leads: routing, qualification, the Twilio webhook, the lead tasks and   *)
(* billing.  Each lead has asked for a service in a city; the providers    *)
(* are fixed test data.                                                    *)

LeadIds == 1..NumLeads

Provider(st, sv, ct, r, n, price) ==
    [status |-> st, services |-> sv, cities |-> ct, rating |-> r,
     total_leads_received |-> n, price_per_lead |-> price]

ProviderIds == 1..5

(* Providers 1, 2 and 5 offer training in London; 2 and 5 have the best    *)
(* rating and 5 has received fewer leads; 3 is better rated but paused; 4  *)
(* has no rating and no price.                                             *)
ProviderDb ==
    [p \in ProviderIds |->
        CASE p = 1 -> Provider("ACTIVE", {"training"}, {"London"}, 40, 0, 10)
          [] p = 2 -> Provider("ACTIVE", {"training"}, {"London", "Leeds"},
                               45, 7, 12)
          [] p = 3 -> Provider("PAUSED", {"training", "yoga"}, {"London"},
                               50, 1, 15)
          [] p = 4 -> Provider("ACTIVE", {"yoga"}, {"London"}, Null, 0, Null)
          [] OTHER -> Provider("ACTIVE", {"training"}, {"London"}, 45, 3, Null)]

(* What the lead with a given id asks for: the even ones ask for a service *)
(* that no provider offers in their city                                   *)
LeadService_of(l) == IF l % 2 = 0 THEN "yoga" ELSE "training"

LeadCity_of(l) == IF l % 2 = 0 THEN "Leeds" ELSE "London"

(* Lead.objects.create(..., status="NEW") in LeadService.create_lead *)
NewLead(l, t) ==
    [status |-> "NEW", provider_id |-> Null, is_billed |-> FALSE,
     billed_at |-> Null, amount_billed |-> Null, created_at |-> t,
     qualified_at |-> Null, service |-> LeadService_of(l),
     city |-> LeadCity_of(l)]

(* The methods of class LeadService *)
LeadServiceMethods ==
    {"create_lead", "route_lead_to_provider", "mark_lead_qualified",
     "contact_provider_via_twilio", "get_lead_stats", "get_lead_for_display"}

(* The fields of model Lead; provider_id is an IntegerField, not a         *)
(* relation, so a Lead object has no attribute "provider"                  *)
LeadFields ==
    {"name", "email", "phone", "whatsapp", "service", "city", "notes",
     "provider_id", "status", "is_billed", "billed_at", "amount_billed",
     "created_at", "updated_at", "qualified_at"}

(* Python's "v or 0" for a number or None *)
OrZero(v) == IF v = Null THEN 0 ELSE v

(* ProviderMatchingService.get_best_provider: the ACTIVE providers in the  *)
(* order of the query (by id), those offering the service in the city,     *)
(* sorted by (-(rating or 0), total_leads_received); None is Null          *)
get_best_provider(service, city) ==
    LET providers == SelectSeqBy([i \in 1..Cardinality(ProviderIds) |-> i],
                         {p \in ProviderIds : ProviderDb[p].status = "ACTIVE"})
        providers_with_service ==
            SelectSeqBy(providers,
                {p \in ProviderIds : /\ service \in ProviderDb[p].services
                                     /\ city \in ProviderDb[p].cities})
        ranked ==
            Sorted(providers_with_service,
                [i \in 1..Len(providers_with_service) |->
                    <<0 - OrZero(ProviderDb[providers_with_service[i]].rating),
                      ProviderDb[providers_with_service[i]].total_leads_received,
                      0>>])
    IN IF providers_with_service = <<>> THEN Null ELSE ranked[1]

(* LeadService.route_lead_to_provider on a lead row *)
route_lead_to_provider(row) ==
    LET provider == get_best_provider(row.service, row.city)
    IN IF provider # Null
       THEN [row EXCEPT !.provider_id = provider, !.status = "CONTACTED"]
       ELSE row

(* LeadService.mark_lead_qualified on a lead row *)
mark_lead_qualified(row, t) ==
    IF row.status = "QUALIFIED" THEN row
    ELSE [row EXCEPT !.status = "QUALIFIED", !.qualified_at = t]

(* _process_lead: LeadService.get_best_provider is looked up on the class; *)
(* raised tells whether an exception leaves the function                   *)
process_lead(row) ==
    IF "get_best_provider" \notin LeadServiceMethods
    THEN [raised |-> TRUE, row |-> row]
    ELSE [raised |-> FALSE, row |-> route_lead_to_provider(row)]

(* _bill_lead: lead.provider is read first *)
bill_lead_helper(row, t) ==
    IF "provider" \notin LeadFields
    THEN [raised |-> TRUE, row |-> row]
    ELSE IF row.provider_id = Null
    THEN [raised |-> FALSE, row |-> row]
    ELSE [raised |-> FALSE,
          row |-> [row EXCEPT
                      !.is_billed = TRUE,
                      !.billed_at = t,
                      !.amount_billed =
                          OrZero(ProviderDb[row.provider_id].price_per_lead)]]

(* BillingService.bill_lead: the two guards, then calculate_lead_cost      *)
(* reads lead.provider inside the try block                                *)
bill_lead(row, t) ==
    IF row.is_billed THEN [success |-> FALSE, row |-> row]
    ELSE IF row.status # "QUALIFIED" THEN [success |-> FALSE, row |-> row]
    ELSE IF "provider" \notin LeadFields THEN [success |-> FALSE, row |-> row]
    ELSE [success |-> TRUE,
          row |-> [row EXCEPT
                      !.is_billed = TRUE,
                      !.billed_at = t,
                      !.amount_billed =
                          IF row.provider_id = Null THEN 0
                          ELSE OrZero(ProviderDb[row.provider_id].price_per_lead)]]

(* Lead.objects.filter(status="NEW")[:10], in the order of the ids *)
NewLeadsBatch ==
    Take(SelectSeqBy([i \in 1..NumLeads |-> i],
             {l \in LeadIds : leads[l].status = "NEW"}),
         BatchSize)

RouteLead(l) ==
    /\ leads' = [leads EXCEPT ![l] = route_lead_to_provider(@)]
    /\ leadOp' = [op |-> "route_lead_to_provider", lead |-> l,
                  value |-> get_best_provider(leads[l].service, leads[l].city)]
    /\ UNCHANGED <<rules, cache, now, run, runs, last, cleaned, lastRead,
                   others, table, lastOp, janitor, calls, phone>>

MarkLeadQualified(l) ==
    /\ leads' = [leads EXCEPT ![l] = mark_lead_qualified(@, now)]
    /\ leadOp' = [op |-> "mark_lead_qualified", lead |-> l, value |-> 0]
    /\ UNCHANGED <<rules, cache, now, run, runs, last, cleaned, lastRead,
                   others, table, lastOp, janitor, calls, phone>>

(* TwilioService.make_call(to_number, lead_id=l): the TwilioCall row *)
MakeCall(l) ==
    /\ l \notin calls
    /\ calls' = calls \cup {l}
    /\ leadOp' = [op |-> "make_call", lead |-> l, value |-> 1]
    /\ UNCHANGED <<rules, cache, now, run, runs, last, cleaned, lastRead,
                   others, table, lastOp, janitor, leads, phone>>

(* TwilioService.handle_webhook for the call of lead l: without a          *)
(* TwilioCall row the answer is "Call not found"                           *)
CallWebhook(l, call_status) ==
    /\ leads' = IF l \in calls /\ call_status \in {"completed", "answered"}
                THEN [leads EXCEPT ![l] = mark_lead_qualified(@, now)]
                ELSE leads
    /\ leadOp' = [op |-> "handle_webhook", lead |-> l,
                  value |-> IF l \in calls THEN 1 ELSE 0]
    /\ UNCHANGED <<rules, cache, now, run, runs, last, cleaned, lastRead,
                   others, table, lastOp, janitor, calls, phone>>

(* process_new_leads: an exception in one lead is logged and the loop goes *)
(* on; processed counts the leads whose call returned                      *)
ProcessNewLeads ==
    /\ leads' = [l \in LeadIds |->
                    IF l \in Range(NewLeadsBatch)
                    THEN process_lead(leads[l]).row ELSE leads[l]]
    /\ leadOp' = [op |-> "process_new_leads", lead |-> 0,
                  value |-> Cardinality({l \in Range(NewLeadsBatch) :
                                            ~process_lead(leads[l]).raised})]
    /\ UNCHANGED <<rules, cache, now, run, runs, last, cleaned, lastRead,
                   others, table, lastOp, janitor, calls, phone>>

(* cleanup_expired_leads: one UPDATE of the NEW and CONTACTED leads        *)
(* created before the cutoff                                               *)
CleanupExpiredLeads ==
    /\ LET expired == {l \in LeadIds :
                          /\ leads[l].status \in {"NEW", "CONTACTED"}
                          /\ leads[l].created_at < now - LeadExpiry}
       IN /\ leads' = [l \in LeadIds |->
                          IF l \in expired
                          THEN [leads[l] EXCEPT !.status = "EXPIRED"]
                          ELSE leads[l]]
          /\ leadOp' = [op |-> "cleanup_expired_leads", lead |-> 0,
                        value |-> Cardinality(expired)]
    /\ UNCHANGED <<rules, cache, now, run, runs, last, cleaned, lastRead,
                   others, table, lastOp, janitor, calls, phone>>

(* bill_qualified_leads: billed counts the leads whose call returned *)
BillQualifiedLeads ==
    /\ LET qualified == {l \in LeadIds : /\ leads[l].status = "QUALIFIED"
                                         /\ ~leads[l].is_billed}
       IN /\ leads' = [l \in LeadIds |->
                          IF l \in qualified
                          THEN bill_lead_helper(leads[l], now).row
                          ELSE leads[l]]
          /\ leadOp' = [op |-> "bill_qualified_leads", lead |-> 0,
                        value |-> Cardinality({l \in qualified :
                                     ~bill_lead_helper(leads[l], now).raised})]
    /\ UNCHANGED <<rules, cache, now, run, runs, last, cleaned, lastRead,
                   others, table, lastOp, janitor, calls, phone>>

BillLead(l) ==
    /\ leads' = [leads EXCEPT ![l] = bill_lead(@, now).row]
    /\ leadOp' = [op |-> "bill_lead", lead |-> l,
                  value |-> IF bill_lead(leads[l], now).success THEN 1 ELSE 0]
    /\ UNCHANGED <<rules, cache, now, run, runs, last, cleaned, lastRead,
                   others, table, lastOp, janitor, calls, phone>>

(* Time passes: more than the age at which a lead expires *)
LeadTick ==
    /\ now <= LeadExpiry
    /\ now' = now + LeadExpiry + 1
    /\ UNCHANGED <<rules, cache, run, runs, last, cleaned, lastRead,
                   others, extras>>

InitLeads ==
    /\ rules = [c \in Cats |-> DefaultRule]
    /\ cache = [c \in Cats |-> NoRow]
    /\ now = 0
    /\ run = IdleRun
    /\ runs = 0
    /\ last = NoCall
    /\ cleaned = 0
    /\ lastRead = NoRead
    /\ OthersIdle
    /\ table = <<>>
    /\ lastOp = NoOp
    /\ janitor = NoJanitor
    /\ leads = [l \in LeadIds |-> NewLead(l, 0)]
    /\ calls = {}
    /\ leadOp = NoLeadOp
    /\ phone = NoPhone

NextLeads ==
    \/ \E l \in LeadIds : RouteLead(l)
    \/ \E l \in LeadIds : MarkLeadQualified(l)
    \/ \E l \in LeadIds : MakeCall(l)
    \/ \E l \in LeadIds : \E call_status \in {"completed", "busy"} :
          CallWebhook(l, call_status)
    \/ ProcessNewLeads
    \/ CleanupExpiredLeads
    \/ BillQualifiedLeads
    \/ \E l \in LeadIds : BillLead(l)
    \/ LeadTick

SpecLeads == InitLeads /\ [][NextLeads]_vars

----------------------------------------------------------------------------
(* Phone verification of a provider: a code is stored in the Django cache  *)
(* under the provider's key for CodeValidity seconds and compared with the *)
(* code the provider enters.  Time is in seconds here.                     *)

(* The providers being verified, and an id without a Provider row *)
PhoneProviders == {1, 2}

UnknownProvider == 0

(* random.randint(100000, 999999): the ends of the range and one between *)
Codes == {100000, 555555, 999999}

NoCode == [code |-> Null, until |-> 0]

(* cache.set(key, value, timeout): the entry is there until the timeout    *)
(* has passed                                                              *)
CacheSet(store, key, value, timeout, t) ==
    [store EXCEPT ![key] = [code |-> value, until |-> t + timeout]]

(* cache.get(key, default) *)
CacheGet(store, key, default, t) ==
    IF store[key].code # Null /\ t < store[key].until
    THEN store[key].code ELSE default

(* CacheHelper.get_or_none(cache_obj, key, default=None), called with the  *)
(* positional arguments args: a call with fewer than two raises TypeError  *)
get_or_none(store, args, t) ==
    IF Len(args) < 2 THEN [raised |-> TRUE, value |-> Null]
    ELSE [raised |-> FALSE,
          value |-> CacheGet(store, args[2],
                             IF Len(args) > 2 THEN args[3] ELSE Null, t)]

(* ProviderVerificationService.verify_phone_code on the state ph; the call *)
(* of get_or_none passes the cache key alone.  Both codes are compared as  *)
(* strings, which differ exactly when the numbers differ.                  *)
verify_phone_code(ph, provider_id, code, t) ==
    IF provider_id \notin PhoneProviders
    THEN [ph EXCEPT !.last = [op |-> "verify", provider |-> provider_id,
                              code |-> code, success |-> FALSE,
                              error |-> "Provider not found"]]
    ELSE LET stored_code == get_or_none(ph.store, <<provider_id>>, t)
         IN IF stored_code.raised
            THEN [ph EXCEPT !.last = [op |-> "verify", provider |-> provider_id,
                                      code |-> code, success |-> FALSE,
                                      error |-> "exception"]]
            ELSE IF stored_code.value = Null
            THEN [ph EXCEPT !.last = [op |-> "verify", provider |-> provider_id,
                                      code |-> code, success |-> FALSE,
                                      error |-> "Verification code expired"]]
            ELSE IF code # stored_code.value
            THEN [ph EXCEPT !.last = [op |-> "verify", provider |-> provider_id,
                                      code |-> code, success |-> FALSE,
                                      error |-> "Invalid verification code"]]
            ELSE [ph EXCEPT !.verified[provider_id] = TRUE,
                            !.store[provider_id] = NoCode,
                            !.last = [op |-> "verify", provider |-> provider_id,
                                      code |-> code, success |-> TRUE,
                                      error |-> ""]]

(* ProviderVerificationService.send_phone_verification, code being the     *)
(* number drawn                                                            *)
SendPhoneVerification(provider_id, code) ==
    /\ phone' =
          IF provider_id \notin PhoneProviders
          THEN [phone EXCEPT !.last = [op |-> "send", provider |-> provider_id,
                                       code |-> Null, success |-> FALSE,
                                       error |-> "Provider not found"]]
          ELSE [phone EXCEPT
                   !.store = CacheSet(@, provider_id, code, CodeValidity, now),
                   !.last = [op |-> "send", provider |-> provider_id,
                             code |-> Null, success |-> TRUE, error |-> ""]]
    /\ UNCHANGED <<rules, cache, now, run, runs, last, cleaned, lastRead,
                   others, table, lastOp, janitor, leads, calls, leadOp>>

VerifyPhoneCode(provider_id, code) ==
    /\ phone' = verify_phone_code(phone, provider_id, code, now)
    /\ UNCHANGED <<rules, cache, now, run, runs, last, cleaned, lastRead,
                   others, table, lastOp, janitor, leads, calls, leadOp>>

(* Time passes, half the validity of a code at a time *)
PhoneTick ==
    /\ now < MaxClock * (CodeValidity \div 2)
    /\ now' = now + (CodeValidity \div 2)
    /\ UNCHANGED <<rules, cache, run, runs, last, cleaned, lastRead,
                   others, extras>>

InitPhone ==
    /\ rules = [c \in Cats |-> DefaultRule]
    /\ cache = [c \in Cats |-> NoRow]
    /\ now = 0
    /\ run = IdleRun
    /\ runs = 0
    /\ last = NoCall
    /\ cleaned = 0
    /\ lastRead = NoRead
    /\ OthersIdle
    /\ table = <<>>
    /\ lastOp = NoOp
    /\ janitor = NoJanitor
    /\ leads = <<>>
    /\ calls = {}
    /\ leadOp = NoLeadOp
    /\ phone = [pc |-> "on",
                verified |-> [p \in PhoneProviders |-> FALSE],
                store |-> [p \in PhoneProviders |-> NoCode],
                last |-> [op |-> "none", provider |-> 0, code |-> Null,
                          success |-> FALSE, error |-> ""]]

NextPhone ==
    \/ \E p \in PhoneProviders \cup {UnknownProvider} : \E code \in Codes :
          SendPhoneVerification(p, code)
    \/ \E p \in PhoneProviders \cup {UnknownProvider} : \E code \in Codes :
          VerifyPhoneCode(p, code)
    \/ PhoneTick

SpecPhone == InitPhone /\ [][NextPhone]_vars

----------------------------------------------------------------------------
(* Vocabulary of the properties *)

(* The step is one call of _refresh_category_cache for category c *)
RefreshStepOf(c) ==
    /\ run.pc = "loop"
    /\ run.i <= Len(run.cats)
    /\ run.cats[run.i] = c
    /\ run'.i = run.i + 1

RECURSIVE IsSubseq(_, _)
IsSubseq(r, s) ==
    IF r = <<>> THEN TRUE
    ELSE IF s = <<>> THEN FALSE
    ELSE IF Head(r) = Head(s) THEN IsSubseq(Tail(r), Tail(s))
    ELSE IsSubseq(r, Tail(s))

NoDuplicates(r) == \A i, j \in 1..Len(r) : i # j => r[i] # r[j]

HasAsin(p) == p.asin # 0 /\ p.asin # Null /\ p.asin # Missing

(* s holds the first n identifiers of the ranked list L, in the order of L *)
IsFirstIdentifiers(s, L, n) ==
    \E idx \in {{i \in 1..Len(L) : HasAsin(L[i])}} :
       /\ Len(s) = (IF Cardinality(idx) < n THEN Cardinality(idx) ELSE n)
       /\ \A k \in 1..Len(s) :
             \E i \in idx : /\ Cardinality({j \in idx : j < i}) = k - 1
                            /\ s[k] = L[i].asin

(* The ACTIVE product rows named in a list, each once, in list order *)
IsResolutionOf(r, asins) ==
    /\ NoDuplicates(r)
    /\ Range(r) = {a \in Range(asins) : a \in DbAsins /\ ProductDb[a].status = "ACTIVE"}
    /\ IsSubseq(r, asins)

(* ACTIVE in-stock rows by rating descending, then review count descending *)
IsTopOrder(r) ==
    /\ NoDuplicates(r)
    /\ Range(r) = {a \in DbAsins : ProductDb[a].status = "ACTIVE" /\ ProductDb[a].in_stock}
    /\ \A i \in 1..(Len(r) - 1) :
          LET x == ProductDb[r[i]]
              y == ProductDb[r[i + 1]]
          IN \/ y.rating = Null
             \/ x.rating # Null /\ x.rating > y.rating
             \/ x.rating = y.rating /\ x.review_count >= y.review_count

ParentCacheUsable(c) ==
    /\ CategoryParent(c) # 0
    /\ cache[CategoryParent(c)].exists
    /\ cache[CategoryParent(c)].cached_asins # <<>>

(* Fields of the cache row that hold the cached data and its bookkeeping *)
RowData(row) ==
    <<row.cached_asins, row.is_fresh, row.next_refresh, row.error_count,
      row.last_error>>

ActiveCats == {c \in Cats : CategoryStatus(c) = "ACTIVE"}

(* The tier of a category: the featured ACTIVE categories are the top tier *)
TierOf(c) == IF CategoryFeatured(c) THEN "top" ELSE "other"

(* Period of the beat schedule entry of a tier *)
ScheduleOf(tier) == IF tier = "top" THEN TopSchedule ELSE OtherSchedule

(* One of the rating, review count and stock checks rejects the product *)
RejectedByBasics(p, r) ==
    \/ p.rating = Null
    \/ p.rating < r.min_rating
    \/ p.review_count < r.min_review_count
    \/ r.in_stock_only /\ ~p.in_stock

(* The price is present and outside a bound that is set *)
RejectedByPrice(p, r) ==
    /\ p.price_gbp # Null
    /\ \/ r.min_price # Null /\ p.price_gbp < r.min_price
       \/ r.max_price # Null /\ p.price_gbp > r.max_price

(* x ranks strictly before y: higher rating, then more reviews, then the   *)
(* lower best-seller rank, a missing rank being the worst                  *)
RanksBefore(x, y) ==
    \/ x.rating > y.rating
    \/ x.rating = y.rating /\ x.review_count > y.review_count
    \/ /\ x.rating = y.rating
       /\ x.review_count = y.review_count
       /\ x.bsr_rank # Missing
       /\ y.bsr_rank = Missing \/ x.bsr_rank < y.bsr_rank

Occurrences(s, x) == Cardinality({i \in 1..Len(s) : s[i] = x})

(* Position of a status on the path NEW, CONTACTED, QUALIFIED, CONVERTED *)
StatusRank(st) ==
    CASE st = "NEW" -> 1
      [] st = "CONTACTED" -> 2
      [] st = "QUALIFIED" -> 3
      [] st = "CONVERTED" -> 4
      [] OTHER -> 5

FinalStatuses == {"CONVERTED", "REJECTED", "EXPIRED"}

(* A lead may stay in its status, and may leave a status that is not final *)
(* for a later one on the path or for REJECTED or EXPIRED                  *)
MovesForward(a, b) ==
    \/ a = b
    \/ /\ a \notin FinalStatuses
       /\ b \in {"REJECTED", "EXPIRED"} \/ StatusRank(b) > StatusRank(a)

(* The ACTIVE providers offering the lead's service in the lead's city *)
MatchingProviders(row) ==
    {p \in ProviderIds : /\ ProviderDb[p].status = "ACTIVE"
                         /\ row.service \in ProviderDb[p].services
                         /\ row.city \in ProviderDb[p].cities}

(* No matching provider is rated higher than p, or rated the same with     *)
(* fewer leads received                                                    *)
IsBestMatch(p, row) ==
    /\ p \in MatchingProviders(row)
    /\ \A q \in MatchingProviders(row) :
          \/ OrZero(ProviderDb[q].rating) < OrZero(ProviderDb[p].rating)
          \/ /\ OrZero(ProviderDb[q].rating) = OrZero(ProviderDb[p].rating)
             /\ ProviderDb[q].total_leads_received
                    >= ProviderDb[p].total_leads_received

(* The three conditions of staleness of the specification, at time t *)
StaleByContract(row, t) ==
    \/ ~row.is_fresh
    \/ row.cached_asins = <<>>
    \/ row.next_refresh # Null /\ t > row.next_refresh

----------------------------------------------------------------------------
(* C1  Partial-failure isolation: when exactly one category of a finished  *)
(* run raised, the cache of every other selected category was written in   *)
(* that run, the run ended with its summary, and the summary counts one    *)
(* error.                                                                  *)
C1_PartialFailureIsolation ==
    (run.pc = "done" /\ Cardinality(run.raised) = 1)
        => /\ \A c \in Range(run.cats) \ run.raised : c \in run.written
           /\ run.error_count = 1

(* C2  Fail static: when the source call fails for a category that holds   *)
(* identifiers, the refresh adds exactly 1 to error_count, stores a        *)
(* message in last_error and keeps cached_asins and is_fresh.              *)
C2_FailStatic ==
    [][\A c \in Cats :
         (/\ RefreshStepOf(c)
          /\ cache[c].exists
          /\ cache[c].cached_asins # <<>>
          /\ last'.queried
          /\ ~last'.ok)
            => /\ cache'[c].error_count = cache[c].error_count + 1
               /\ cache'[c].last_error # ""
               /\ cache'[c].cached_asins = cache[c].cached_asins
               /\ cache'[c].is_fresh = cache[c].is_fresh]_vars

(* C3  Write effect: a refresh that writes leaves in the row exactly the   *)
(* first CacheCap identifiers of the ranked candidate list, in rank order, *)
(* with is_fresh true and next_refresh after the time of the write,        *)
(* whatever the row held before.                                           *)
C3_WriteEffect ==
    [][\A c \in Cats :
         (RefreshStepOf(c) /\ last'.result = "written")
            => /\ cache'[c].exists
               /\ \E L \in {rank_products(last'.items)} :
                     IsFirstIdentifiers(cache'[c].cached_asins, L, CacheCap)
               /\ cache'[c].is_fresh
               /\ cache'[c].next_refresh > now]_vars

C3_Witness ==
    /\ last.result = "written"
    /\ Len(last.items) > CacheCap
    /\ Len(cache[last.cat].cached_asins) = CacheCap
    /\ cache[last.cat].cached_asins[1] = rank_products(last.items)[1].asin
    /\ cache[last.cat].is_fresh

(* C4  Only eligible products are cached: every identifier a refresh       *)
(* writes belongs to a candidate that passes the category's filter rule.   *)
C4_OnlyEligibleCached ==
    [][\A c \in Cats :
         (RefreshStepOf(c) /\ last'.result = "written")
            => \A k \in 1..Len(cache'[c].cached_asins) :
                  \E i \in 1..Len(last'.items) :
                     /\ last'.items[i].asin = cache'[c].cached_asins[k]
                     /\ apply_filter_rules(last'.items[i], rules[c])]_vars

(* C5  Staleness: is_cache_stale reports stale exactly when is_fresh is    *)
(* false, or cached_asins is empty, or the time is after next_refresh.     *)
C5_Staleness ==
    lastRead.op = "is_cache_stale"
        => (lastRead.flag <=> StaleByContract(cache[lastRead.cat], lastRead.at))

(* C6  Order preservation: get_products returns the ACTIVE products named  *)
(* in cached_asins, each once, in the order of cached_asins, whatever the  *)
(* order in which the rows were fetched.                                   *)
C6_OrderPreservation ==
    lastRead.op = "get_products"
        => IsResolutionOf(lastRead.result, cache[lastRead.cat].cached_asins)

C6_Witness ==
    /\ lastRead.op = "get_products"
    /\ cache[lastRead.cat].cached_asins = <<3, 2, 6, 1>>
    /\ lastRead.result = <<2, 1>>

(* C7  Fallback chain: get_fallback_products returns the parent's cached   *)
(* products in the parent's cache order, cut to limit, when the parent has *)
(* a non-empty cache list, and the global top products cut to limit in     *)
(* every other case.                                                       *)
C7_FallbackChain ==
    lastRead.op = "get_fallback_products"
        => IF ParentCacheUsable(lastRead.cat)
           THEN \E r \in Orders(ActiveIn(cache[CategoryParent(lastRead.cat)].cached_asins)) :
                   /\ IsResolutionOf(r, cache[CategoryParent(lastRead.cat)].cached_asins)
                   /\ lastRead.result = Take(r, lastRead.limit)
           ELSE \E r \in Orders(TopPool) :
                   /\ IsTopOrder(r)
                   /\ lastRead.result = Take(r, lastRead.limit)

C7_Witness ==
    /\ lastRead.op = "get_fallback_products"
    /\ lastRead.cat = 2
    /\ cache[1].cached_asins = <<3, 2, 6, 1>>
    /\ lastRead.limit = 1
    /\ lastRead.result = <<2>>

(* C8  Automatic fallback on read: when the category's cache is missing,   *)
(* empty or stale, get_category_products returns the fallback products     *)
(* (the parent's cached products, else the global top products), cut to    *)
(* the limit when one is given.                                            *)
C8_FallbackOnRead ==
    (/\ lastRead.op = "get_category_products"
     /\ \/ ~cache[lastRead.cat].exists
        \/ StaleByContract(cache[lastRead.cat], lastRead.at))
        => \E r \in (IF ParentCacheUsable(lastRead.cat)
                     THEN {x \in Orders(ActiveIn(cache[CategoryParent(lastRead.cat)].cached_asins)) :
                              IsResolutionOf(x, cache[CategoryParent(lastRead.cat)].cached_asins)}
                     ELSE {x \in Orders(TopPool) : IsTopOrder(x)}) :
              lastRead.result = (IF lastRead.limit = Null THEN r
                                 ELSE Take(r, lastRead.limit))

(* C9  Missing rule is not a failure: the refresh of a category without a  *)
(* filter row queries the source and leaves the row that the refresh of a  *)
(* category with an explicit default rule would leave.                     *)
C9_MissingRuleDefaults ==
    [][\A c \in Cats :
         (RefreshStepOf(c) /\ rules[c] = NoRule)
            => /\ last'.queried
               /\ \E outcome \in SourceOutcomes :
                     /\ outcome.ok = last'.ok
                     /\ outcome.items = last'.items
                     /\ cache'[c] = RefreshedRow(cache[c], DefaultRule, outcome, now)
                     /\ last'.result = RefreshResult(DefaultRule, outcome)]_vars

(* C10  No eligible products is not an error: when the source answers and  *)
(* no candidate passes the filter, the refresh writes an empty list with   *)
(* is_fresh true, counts the category as refreshed and shows no error.     *)
C10_NoEligibleProducts ==
    [][\A c \in Cats :
         (/\ RefreshStepOf(c)
          /\ last'.queried
          /\ last'.ok
          /\ \A i \in 1..Len(last'.items) :
                ~apply_filter_rules(last'.items[i], get_filter_rules(rules[c])))
            => /\ cache'[c].exists
               /\ cache'[c].cached_asins = <<>>
               /\ cache'[c].is_fresh
               /\ run'.refresh_count = run.refresh_count + 1
               /\ cache'[c].error_count = 0
               /\ cache'[c].last_error = ""]_vars

C12_SingleMutator ==
    [][\A c \in Cats :
         RowData(cache'[c]) # RowData(cache[c]) => RefreshStepOf(c)]_vars

(* C13  Reads are pure: a call of get_category_products, get_products,    *)
(* get_product_count or get_fallback_products starts no refresh, makes no   *)
(* call of the product source and leaves every cache row as it was.        *)
C13_ReadsArePure ==
    [][(/\ lastRead' # lastRead
        /\ lastRead'.op \in {"get_category_products", "get_products",
                             "get_product_count", "get_fallback_products"})
          => /\ cache' = cache
             /\ run' = run
             /\ runs' = runs
             /\ last' = last
             /\ task' = task
             /\ workers' = workers]_vars

C13_Witness ==
    /\ lastRead.op = "get_category_products"
    /\ ~cache[lastRead.cat].exists
    /\ lastRead.result = <<>>
    /\ \E d \in Cats : /\ cache[d].exists
                        /\ cache[d].next_refresh # Null
                        /\ now > cache[d].next_refresh
    /\ run = IdleRun
    /\ last = NoCall

(* C14  Per-category independence: however the refreshes of different      *)
(* categories interleave, a category whose refresh has not finished holds   *)
(* its old row, a category whose refresh has finished holds the row that   *)
(* its refresh alone produces from its old row, its rule and its own       *)
(* source answer, and every identifier in a written row comes from the      *)
(* category's own source answer.                                           *)
C14_Independence ==
    \A c \in Cats :
       IF workers[c].pc = "done"
       THEN /\ cache[c] = RefreshedRow(ParRow(c), rules[c],
                                       workers[c].outcome, workers[c].at)
            /\ cache[c] # ParRow(c)
                  => \A k \in 1..Len(cache[c].cached_asins) :
                        \E i \in 1..Len(workers[c].outcome.items) :
                           workers[c].outcome.items[i].asin = cache[c].cached_asins[k]
       ELSE workers[c].pc \in {"idle", "called"} => cache[c] = ParRow(c)

C14_Witness ==
    /\ \A c \in Cats : workers[c].pc = "done"
    /\ workers[1].at # workers[2].at
    /\ workers[1].outcome # workers[2].outcome
    /\ cache[1].cached_asins \notin {<<>>, ParRow(1).cached_asins}
    /\ cache[2].exists
    /\ cache[2].cached_asins = <<>>

(* C15  Bounded retry, three executions: an invocation that fails as a    *)
(* whole is retried with a countdown of 5 minutes, is executed at most 3   *)
(* times in total and ends in a terminal failure after the third failed   *)
(* execution; a terminal failure is never retried; every invocation ends   *)
(* with a summary or with the terminal failure.                            *)
C15_BoundedRetry ==
    /\ [](task.executions <= MaxRetries)
    /\ [](task.state = "waiting" => task.countdown = RetryCountdown)
    /\ [](task.state = "failed" => task.executions = MaxRetries)
    /\ [][task.state = "failed" => task' = task]_vars
    /\ (task.state \in {"running", "waiting"}
          ~> task.state \in {"summary", "failed"})

(* C15  Bounded retry, three retries: an invocation that fails as a whole  *)
(* is retried with a countdown of 5 minutes at most 3 times, so it is      *)
(* executed at most 4 times in total, and it ends in a terminal failure    *)
(* after the fourth failed execution; a terminal failure is never retried; *)
(* every invocation ends with a summary or with the terminal failure.      *)
C15_BoundedRetryAmended ==
    /\ [](task.executions <= MaxRetries + 1)
    /\ [](task.retries <= MaxRetries)
    /\ [](task.state = "waiting" => task.countdown = RetryCountdown)
    /\ [](task.state = "failed" => task.executions = MaxRetries + 1)
    /\ [][task.state = "failed" => task' = task]_vars
    /\ [][task.executions' > task.executions /\ task.executions > 0
            => task.waited = RetryCountdown]_vars
    /\ (task.state \in {"running", "waiting"}
          ~> task.state \in {"summary", "failed"})

C15_Witness ==
    /\ task.state = "failed"
    /\ task.executions = MaxRetries + 1
    /\ task.retries = MaxRetries
    /\ run.pc = "aborted"

(* C16  Tier selection: a run with an explicit category_id selects only    *)
(* that category; a run of tier "top" selects only ACTIVE featured         *)
(* categories, at most TopBatch of them; a run of tier "other" selects     *)
(* exactly the ACTIVE categories that are not featured; no category is     *)
(* selected by both schedules.                                             *)
C16_TierSelection ==
    /\ run.pc # "idle" /\ run.category_id # 0
          => Range(run.cats) = {run.category_id}
    /\ run.pc # "idle" /\ run.category_id = 0 /\ run.tier = "top"
          => /\ Range(run.cats) \subseteq {c \in ActiveCats : CategoryFeatured(c)}
             /\ Len(run.cats) <= TopBatch
    /\ run.pc # "idle" /\ run.category_id = 0 /\ run.tier = "other"
          => /\ Range(run.cats) = {c \in ActiveCats : ~CategoryFeatured(c)}
             /\ Range(run.cats) \cap Range(SelectCategories(0, "top")) = {}

(* C17  Refresh interval follows the tier: a refresh that writes sets      *)
(* next_refresh to the time of the write plus the schedule period of the   *)
(* category's tier, and a row written by a scheduled run does not expire   *)
(* before the next run of that schedule.                                   *)
C17_IntervalFollowsTier ==
    [][\A c \in Cats :
         (RefreshStepOf(c) /\ last'.result = "written")
            => /\ cache'[c].next_refresh = now + ScheduleOf(TierOf(c))
               /\ run.tier \in {"top", "other"}
                     => cache'[c].next_refresh >= now + ScheduleOf(run.tier)]_vars

(* C18  Eligibility, rating/reviews/stock: a product whose rating is       *)
(* absent or below the minimum, whose review count is below the minimum,   *)
(* or that is out of stock under an in-stock-only rule is rejected by      *)
(* apply_filter_rules and by meets_filter_criteria, whatever its other     *)
(* fields; a product that passes the three checks is accepted by           *)
(* meets_filter_criteria, and by apply_filter_rules when the rule sets no  *)
(* price bound.                                                            *)
C18_EligibilityBasics ==
    calc.op = "filter"
        => /\ RejectedByBasics(calc.product, calc.rule)
                 => ~calc.applied /\ ~calc.met
           /\ ~RejectedByBasics(calc.product, calc.rule)
                 => /\ calc.met
                    /\ calc.rule.min_price = Null /\ calc.rule.max_price = Null
                          => calc.applied

C18_Witness ==
    /\ calc.op = "filter"
    /\ calc.product.rating = 39
    /\ calc.product.review_count = 10000
    /\ calc.product.in_stock
    /\ calc.rule.min_rating = DefaultMinRating
    /\ ~calc.applied
    /\ ~calc.met

(* C19  Eligibility, price bounds: a product that passes the rating,       *)
(* review and stock checks is rejected by apply_filter_rules exactly when  *)
(* its price is present and below a minimum price that is set or above a   *)
(* maximum price that is set, the value 0 included.                        *)
C19_PriceBounds ==
    (calc.op = "filter" /\ ~RejectedByBasics(calc.product, calc.rule))
        => (~calc.applied <=> RejectedByPrice(calc.product, calc.rule))

(* C20  Ranking: rank_products returns every input product exactly once,   *)
(* no product ranks strictly before its predecessor in the result (rating  *)
(* descending, then review count descending, then best-seller rank         *)
(* ascending with a missing rank last), and products equal on the three    *)
(* keys keep their input order.                                            *)
C20_Ranking ==
    calc.op = "rank"
        => /\ Len(calc.output) = Len(calc.input)
           /\ \A p \in RankPayloads :
                 Occurrences(calc.output, p) = Occurrences(calc.input, p)
           /\ \A i \in 1..(Len(calc.output) - 1) :
                 ~RanksBefore(calc.output[i + 1], calc.output[i])
           /\ \A x, y \in Range(calc.input) :
                 (~RanksBefore(x, y) /\ ~RanksBefore(y, x))
                    => SelectSeqBy(calc.output, {x, y})
                          = SelectSeqBy(calc.input, {x, y})
           /\ \A i, j \in 1..Len(calc.output) :
                 (/\ calc.output[i].rating = calc.output[j].rating
                  /\ calc.output[i].review_count > calc.output[j].review_count)
                    => i < j

C20_Witness ==
    /\ calc.op = "rank"
    /\ calc.input = <<cB, pU, pT>>
    /\ calc.output = <<pT, pU, cB>>

(* C21  Round trip: a read of a category that directly follows a write of  *)
(* a non-empty identifier list of at most CacheCap entries to the same     *)
(* category, at a time not after the row's next_refresh, returns that list *)
(* in the same order and reports the row as not stale.                     *)
C21_RoundTrip ==
    [][\A c \in Cats :
         (/\ lastOp.name = "write"
          /\ lastOp.cat = c
          /\ lastOp.asins # <<>>
          /\ Len(lastOp.asins) <= CacheCap
          /\ lastOp'.name = "read"
          /\ lastOp'.cat = c
          /\ \A i \in RowsOf(table, c) : now <= table[i].row.next_refresh)
            => /\ lastOp'.list = lastOp.asins
               /\ lastOp'.stale = FALSE]_vars

C21_Witness ==
    /\ lastOp.name = "read"
    /\ lastOp.after = "write"
    /\ lastOp.list = <<2, 1>>
    /\ lastOp.stale = FALSE
    /\ lastOp.at = RefreshInterval
    /\ \A i \in RowsOf(table, lastOp.cat) :
          table[i].row.next_refresh = RefreshInterval

(* C22  Idempotent write: a write that repeats the write just before it    *)
(* (same category, same identifier list, same time) leaves every row of    *)
(* the table as it was, and the category has exactly one row.              *)
C22_IdempotentWrite ==
    [][(lastOp'.name = "write" /\ lastOp'.again)
          => /\ table' = table
             /\ Cardinality(RowsOf(table', lastOp'.cat)) = 1]_vars

C22_Witness ==
    /\ lastOp.name = "write"
    /\ lastOp.again
    /\ lastOp.asins = <<2, 1>>
    /\ Len(table) = Cardinality(StoreCats)
    /\ \A i \in RowsOf(table, lastOp.cat) :
          /\ table[i].row.cached_asins = <<2, 1>>
          /\ table[i].row.product_count = 2
          /\ table[i].row.next_refresh = lastOp.at + RefreshInterval

(* C23  Cap: in every state that refreshes and cleanup runs reach, every   *)
(* category's cached_asins holds at most CacheCap identifiers, however     *)
(* many candidates the product source returned.                            *)
C23_Cap ==
    \A c \in Cats : Len(cache[c].cached_asins) <= CacheCap

C23_Witness ==
    \E c \in Cats :
       /\ cache[c].exists
       /\ cache[c].product_count = CacheCap + ExtraLong
       /\ Len(cache[c].cached_asins) = CacheCap
       /\ NoDuplicates(cache[c].cached_asins)
       /\ \E d \in Cats : cache[d].exists /\ ~cache[d].is_fresh

(* C24  Product count: the count reported for a category by                *)
(* AffiliateCategory.get_product_count, by the category serializer and by  *)
(* the category detail page is the length of the identifier list stored in *)
(* the category's cache row, and 0 when the category has no row.           *)
C24_ProductCount ==
    \A c \in Cats :
       \E n \in {IF cache[c].exists THEN Len(cache[c].cached_asins) ELSE 0} :
          /\ get_product_count(c) = n
          /\ serializer_product_count(c) = n
          /\ detail_product_count(c) = n

(* C25  Summary counts: in the summary of a completed refresh run,         *)
(* refreshed plus errors is the number of selected categories, refreshed   *)
(* is the number of categories whose cache row was written in the run and  *)
(* errors is the number of categories whose refresh failed.                *)
C25_SummaryCounts ==
    run.pc = "done"
        => /\ run.refresh_count + run.error_count = Len(run.cats)
           /\ run.refresh_count = Cardinality(run.written)
           /\ run.error_count = Cardinality(run.raised)

(* C26  No lost update between cleanup and refresh: a save made by         *)
(* cleanup_expired_categories, wherever the writes of the refresh fall     *)
(* between its steps, leaves the identifier list, product_count and        *)
(* next_refresh of every row as they are, and changes is_fresh only of a   *)
(* row whose product_count is 0 at that moment.                            *)
C26_NoLostUpdate ==
    [][(/\ janitor.pc = "saving"
        /\ janitor.loaded # <<>>
        /\ janitor'.loaded = Tail(janitor.loaded))
          => \A i \in 1..Len(table) :
                /\ table'[i].category = table[i].category
                /\ table'[i].row.cached_asins = table[i].row.cached_asins
                /\ table'[i].row.product_count = table[i].row.product_count
                /\ table'[i].row.next_refresh = table[i].row.next_refresh
                /\ table'[i].row.is_fresh # table[i].row.is_fresh
                      => table[i].row.product_count = 0]_vars

(* C27  Lead status progression: in every step of routing, qualification,  *)
(* webhook handling, process_new_leads, cleanup_expired_leads and billing, *)
(* the status of every lead stays or moves forward along NEW, CONTACTED,   *)
(* QUALIFIED, CONVERTED, or to REJECTED or EXPIRED; it never moves back    *)
(* and never leaves CONVERTED, REJECTED or EXPIRED.                        *)
C27_StatusProgression ==
    [][\A l \in LeadIds : MovesForward(leads[l].status, leads'[l].status)]_vars

(* C28  Lead processing: a run of process_new_leads changes at most        *)
(* BatchSize leads, all of them NEW; every NEW lead it takes that has a    *)
(* matching ACTIVE provider ends the run CONTACTED and assigned to the     *)
(* matching provider with the highest rating (fewer leads received on a    *)
(* tie), and every NEW lead without a matching provider stays NEW with no  *)
(* provider.                                                               *)
C28_LeadProcessing ==
    [][ProcessNewLeads
         => \E new \in {{l \in LeadIds : leads[l].status = "NEW"}} :
               /\ {l \in LeadIds : leads'[l] # leads[l]} \subseteq new
               /\ Cardinality({l \in LeadIds : leads'[l] # leads[l]}) <= BatchSize
               /\ Cardinality(new) <= BatchSize
                     => \A l \in new :
                           IF MatchingProviders(leads[l]) # {}
                           THEN /\ leads'[l].status = "CONTACTED"
                                /\ IsBestMatch(leads'[l].provider_id, leads[l])
                           ELSE /\ leads'[l].status = "NEW"
                                /\ leads'[l].provider_id = Null]_vars

(* C29  Billing: a run of bill_qualified_leads marks every lead that is    *)
(* QUALIFIED, not billed and assigned to a provider as billed, at the time *)
(* of the run, for the provider's price per lead (0 when none is set), and *)
(* leaves every other lead alone; no step changes the billing of a lead    *)
(* that is already billed or not QUALIFIED.                                *)
C29_Billing ==
    [][/\ BillQualifiedLeads
            => \A l \in LeadIds :
                  IF /\ leads[l].status = "QUALIFIED"
                     /\ ~leads[l].is_billed
                     /\ leads[l].provider_id # Null
                  THEN /\ leads'[l].is_billed
                       /\ leads'[l].billed_at = now
                       /\ leads'[l].amount_billed =
                             OrZero(ProviderDb[leads[l].provider_id].price_per_lead)
                  ELSE leads'[l] = leads[l]
       /\ \A l \in LeadIds :
             (leads[l].is_billed \/ leads[l].status # "QUALIFIED")
                => /\ leads'[l].is_billed = leads[l].is_billed
                   /\ leads'[l].billed_at = leads[l].billed_at
                   /\ leads'[l].amount_billed = leads[l].amount_billed]_vars

(* C30  Phone verification round trip: verify_phone_code called with the   *)
(* code stored for the provider, before its validity ends, succeeds, sets  *)
(* phone_verified and deletes the stored code; called with any other code, *)
(* or when no valid code is stored, it fails and leaves phone_verified and *)
(* the stored code as they are.                                            *)
C30_PhoneRoundTrip ==
    [][\A p \in PhoneProviders : \A code \in Codes :
         VerifyPhoneCode(p, code)
            => IF /\ phone.store[p].code = code
                  /\ now < phone.store[p].until
               THEN /\ phone'.last.success
                    /\ phone'.verified[p]
                    /\ phone'.store[p].code = Null
               ELSE /\ ~phone'.last.success
                    /\ phone'.verified = phone.verified
                    /\ phone'.store = phone.store]_vars

====
